---- MODULE Spec2Model ----
(***************************************************************************)
(* A model of the course-link bot: query building, result scoring,         *)
(* deduplication and ranking (bot/search.py), the two rate-limit layers    *)
(* (bot/utils.py RateLimiter, bot/database.py check_rate_limit) and the    *)
(* handlers that drive them (bot/handlers.py).                             *)
(*                                                                         *)
(* Text is modelled as a sequence of one-character strings, so that        *)
(* substring tests, lower-casing and the regular-expression clean-up of    *)
(* the code are computed, not assumed.                                     *)
(***************************************************************************)
EXTENDS Integers, Sequences, FiniteSets, TLC

\* ------------------------------------------------------------------ text

Min(a, b) == IF a <= b THEN a ELSE b

Max(a, b) == IF a >= b THEN a ELSE b

Range(s) == {s[i] : i \in 1..Len(s)}

LowerLetters == {"a", "b", "c", "d", "e", "f", "g", "h", "i", "j", "k", "l", "m", "n", "o", "p", "q", "r", "s", "t", "u", "v", "w", "x", "y", "z"}

UpperLetters == {"A", "B", "C", "D", "E", "F", "G", "H", "I", "J", "K", "L", "M", "N", "O", "P", "Q", "R", "S", "T", "U", "V", "W", "X", "Y", "Z"}

Digits == {"0", "1", "2", "3", "4", "5", "6", "7", "8", "9"}

\* str.lower() on one character
LowerChar(c) ==
  CASE c = "A" -> "a"
    [] c = "B" -> "b"
    [] c = "C" -> "c"
    [] c = "D" -> "d"
    [] c = "E" -> "e"
    [] c = "F" -> "f"
    [] c = "G" -> "g"
    [] c = "H" -> "h"
    [] c = "I" -> "i"
    [] c = "J" -> "j"
    [] c = "K" -> "k"
    [] c = "L" -> "l"
    [] c = "M" -> "m"
    [] c = "N" -> "n"
    [] c = "O" -> "o"
    [] c = "P" -> "p"
    [] c = "Q" -> "q"
    [] c = "R" -> "r"
    [] c = "S" -> "s"
    [] c = "T" -> "t"
    [] c = "U" -> "u"
    [] c = "V" -> "v"
    [] c = "W" -> "w"
    [] c = "X" -> "x"
    [] c = "Y" -> "y"
    [] c = "Z" -> "z"
    [] OTHER -> c

\* str.lower()
Lower(s) == [i \in 1..Len(s) |-> LowerChar(s[i])]

\* the regular-expression class \w (ASCII part)
IsWordChar(c) == c \in LowerLetters \cup UpperLetters \cup Digits \cup {"_"}

\* the regular-expression class \s
IsSpaceChar(c) == c \in {" ", "\t", "\n"}

\* Python's `t in s` on strings
Contains(s, t) ==
  \E i \in 0..(Len(s) - Len(t)) : \A j \in 1..Len(t) : s[i + j] = t[j]

\* str.strip()
RECURSIVE LStrip(_)
LStrip(s) == IF s # <<>> /\ IsSpaceChar(Head(s)) THEN LStrip(Tail(s)) ELSE s

RECURSIVE RStrip(_)
RStrip(s) ==
  IF s # <<>> /\ IsSpaceChar(s[Len(s)]) THEN RStrip(SubSeq(s, 1, Len(s) - 1)) ELSE s

Strip(s) == RStrip(LStrip(s))

\* ' '.join(s.split()): runs of whitespace become one space, none at the ends
RECURSIVE CollapseSpaces(_)
CollapseSpaces(s) ==
  LET t == LStrip(s) IN
  IF t = <<>> THEN <<>>
  ELSE LET n == CHOOSE k \in 1..Len(t) :
                  /\ \A j \in 1..k : ~IsSpaceChar(t[j])
                  /\ (k = Len(t) \/ IsSpaceChar(t[k + 1]))
           rest == CollapseSpaces(SubSeq(t, n + 1, Len(t)))
       IN IF rest = <<>> THEN SubSeq(t, 1, n)
          ELSE SubSeq(t, 1, n) \o <<" ">> \o rest

\* n copies of the character c
Repeat(c, n) == [i \in 1..n |-> c]

\* words joined by single spaces
RECURSIVE JoinWords(_)
JoinWords(ws) ==
  IF ws = <<>> THEN <<>>
  ELSE IF Len(ws) = 1 THEN ws[1]
  ELSE ws[1] \o <<" ">> \o JoinWords(Tail(ws))

\* every sequence over S of length at most n
SeqsUpTo(S, n) == UNION {[1..k -> S] : k \in 0..n}

\* ---------------------------------------------------------------- config


\* Config.SUPPORTED_PLATFORMS
SUPPORTED_PLATFORMS ==
  << <<"d", "r", "i", "v", "e", ".", "g", "o", "o", "g", "l", "e", ".", "c", "o", "m">>,
     <<"m", "e", "d", "i", "a", "f", "i", "r", "e", ".", "c", "o", "m">>,
     <<"m", "e", "g", "a", ".", "n", "z">>,
     <<"d", "r", "o", "p", "b", "o", "x", ".", "c", "o", "m">>,
     <<"o", "n", "e", "d", "r", "i", "v", "e", ".", "l", "i", "v", "e", ".", "c", "o", "m">> >>

\* _build_search_query: course_terms
course_terms ==
  << <<"c", "o", "u", "r", "s", "e">>,
     <<"t", "u", "t", "o", "r", "i", "a", "l">>,
     <<"l", "e", "s", "s", "o", "n", "s">>,
     <<"t", "r", "a", "i", "n", "i", "n", "g">>,
     <<"c", "l", "a", "s", "s">> >>

\* _build_search_query: file_indicators
file_indicators ==
  << <<"d", "o", "w", "n", "l", "o", "a", "d">>,
     <<"f", "i", "l", "e", "s">>,
     <<"r", "e", "s", "o", "u", "r", "c", "e", "s">>,
     <<"m", "a", "t", "e", "r", "i", "a", "l", "s">> >>

\* _calculate_quality_score: positive_title_terms
positive_title_terms ==
  << <<"c", "o", "u", "r", "s", "e">>,
     <<"t", "u", "t", "o", "r", "i", "a", "l">>,
     <<"c", "o", "m", "p", "l", "e", "t", "e">>,
     <<"f", "u", "l", "l">>,
     <<"m", "a", "s", "t", "e", "r">>,
     <<"c", "l", "a", "s", "s">>,
     <<"t", "r", "a", "i", "n", "i", "n", "g">> >>

\* _calculate_quality_score: negative_title_terms
negative_title_terms ==
  << <<"p", "r", "e", "v", "i", "e", "w">>,
     <<"s", "a", "m", "p", "l", "e">>,
     <<"d", "e", "m", "o">>,
     <<"t", "r", "a", "i", "l", "e", "r">> >>

\* Config.MAX_RESULTS_PER_PAGE
MAX_RESULTS_PER_PAGE == 5

\* Config.RATE_LIMIT_SEARCHES
RATE_LIMIT_SEARCHES == 10

\* Config.RATE_LIMIT_WINDOW (seconds)
RATE_LIMIT_WINDOW == 60

\* Config.is_valid_platform
is_valid_platform(url) ==
  \E i \in 1..Len(SUPPORTED_PLATFORMS) : Contains(Lower(url), SUPPORTED_PLATFORMS[i])

\* ------------------------------------------------------------- the query

\* the punctuation Validator.is_valid_search_query lets through
AllowedPunctuation == {"-", ".", "(", ")", "[", "]"}

\* Validator.is_valid_search_query
is_valid_search_query(query) ==
  /\ query # <<>>
  /\ Strip(query) # <<>>
  /\ Len(Strip(query)) >= 2
  /\ \A i \in 1..Len(query) :
       IsWordChar(query[i]) \/ IsSpaceChar(query[i]) \/ query[i] \in AllowedPunctuation

\* re.sub(r'[^\w\s]', ' ', query.strip()) and ' '.join(clean_query.split())
NormalizeQuery(query) ==
  LET stripped == Strip(query)
      spaced == [i \in 1..Len(stripped) |->
                   IF IsWordChar(stripped[i]) \/ IsSpaceChar(stripped[i])
                     THEN stripped[i] ELSE " "]
  IN  CollapseSpaces(spaced)

\* any(term in text for term in terms)
AnyTermIn(terms, text) == \E i \in 1..Len(terms) : Contains(text, terms[i])

JoinFirstSite(platforms) == <<"s", "i", "t", "e", ":">> \o Head(platforms)

\* " OR ".join("site:" + p for p in platforms)
RECURSIVE JoinSites(_)
JoinSites(platforms) ==
  IF platforms = <<>> THEN <<>>
  ELSE <<"s", "i", "t", "e", ":">> \o Head(platforms)
       \o (IF Len(platforms) = 1 THEN <<>>
           ELSE <<" ", "O", "R", " ">> \o JoinSites(Tail(platforms)))

IsAnyHint(platform) == platform # <<>>

\* if platform: if platform in self.config.SUPPORTED_PLATFORMS
IsSupportedHint(platform) == platform # <<>> /\ platform \in Range(SUPPORTED_PLATFORMS)

\* SearchEngine._build_search_query; platform <<>> stands for None
build_search_query(query, platform) ==
  LET clean == NormalizeQuery(query)
      with_course == IF AnyTermIn(course_terms, Lower(clean)) THEN clean
                     ELSE clean \o <<" ", "c", "o", "u", "r", "s", "e">>
      with_files == IF AnyTermIn(file_indicators, Lower(with_course)) THEN with_course
                    ELSE with_course \o <<" ", "d", "o", "w", "n", "l", "o", "a", "d">>
  IN  IF IsSupportedHint(platform)
        THEN with_files \o <<" ", "s", "i", "t", "e", ":">> \o platform
        ELSE with_files \o <<" ", "(">> \o JoinSites(SUPPORTED_PLATFORMS) \o <<")">>

\* --------------------------------------------------------------- scoring

\* how many entries of the term list occur in the text (one per term, however
\* often the term occurs)
TermsPresent(terms, text) ==
  Cardinality({i \in 1..Len(terms) : Contains(text, terms[i])})

\* the platform bonus: 'drive.google.com' in link, elif 'mega.nz' in link,
\* tested on the link as it was received
PlatformBonus(link) ==
  IF Contains(link, <<"d", "r", "i", "v", "e", ".", "g", "o", "o", "g", "l", "e", ".", "c", "o", "m">>)
    THEN 2
    ELSE IF Contains(link, <<"m", "e", "g", "a", ".", "n", "z">>) THEN 1 ELSE 0

\* the score before clamping
RawQualityScore(title, snippet, link) ==
  LET title_lower == Lower(title)
      snippet_lower == Lower(snippet)
  IN  5
      + 2 * TermsPresent(positive_title_terms, title_lower)
      - 3 * TermsPresent(negative_title_terms, title_lower)
      + (IF Contains(snippet_lower, <<"d", "o", "w", "n", "l", "o", "a", "d">>) THEN 1 ELSE 0)
      + (IF Contains(snippet_lower, <<"f", "r", "e", "e">>) THEN 1 ELSE 0)
      + (IF Contains(snippet_lower, <<"g", "b">>) \/ Contains(snippet_lower, <<"m", "b">>)
           THEN 2 ELSE 0)
      + (IF Len(link) < 100 THEN 1 ELSE 0)
      + PlatformBonus(link)

ClampUpperOnly(score) == Min(10, score)

\* max(0, min(10, score))
ClampScore(score) == Max(0, Min(10, score))

\* SearchEngine._calculate_quality_score
calculate_quality_score(title, snippet, link) ==
  ClampScore(RawQualityScore(title, snippet, link))

\* ---------------------------------------------------------------- inputs

\* longest title, in words, given to the scorer
MaxTitleWords == 2

TitleWords ==
  { <<"C", "o", "u", "r", "s", "e">>,
    <<"M", "a", "s", "t", "e", "r", "c", "l", "a", "s", "s">>,
    <<"f", "u", "l", "l">>,
    <<"p", "r", "e", "v", "i", "e", "w">>,
    <<"d", "e", "m", "o">>,
    <<"p", "y", "t", "h", "o", "n">> }

Titles == {JoinWords(ws) : ws \in SeqsUpTo(TitleWords, MaxTitleWords)}

Snippets ==
  { <<>>,
    <<"n", "o", "t", "e", "s">>,
    <<"f", "r", "e", "e", " ", "d", "o", "w", "n", "l", "o", "a", "d">>,
    <<"s", "i", "z", "e", " ", "2", "G", "B">>,
    <<"F", "r", "e", "e", " ", "D", "o", "w", "n", "l", "o", "a", "d", " ", "7", "0", "0", " ", "M", "B">> }

DriveLink == <<"h", "t", "t", "p", "s", ":", "/", "/", "d", "r", "i", "v", "e", ".", "g", "o", "o", "g", "l", "e", ".", "c", "o", "m", "/", "f", "i", "l", "e", "/", "d", "/", "1">>

DriveLinkUpper == <<"h", "t", "t", "p", "s", ":", "/", "/", "D", "r", "i", "v", "e", ".", "G", "o", "o", "g", "l", "e", ".", "c", "o", "m", "/", "d", "/", "2">>

MegaLink == <<"h", "t", "t", "p", "s", ":", "/", "/", "m", "e", "g", "a", ".", "n", "z", "/", "f", "i", "l", "e", "/", "a">>

MediaFireLink == <<"h", "t", "t", "p", "s", ":", "/", "/", "w", "w", "w", ".", "m", "e", "d", "i", "a", "f", "i", "r", "e", ".", "c", "o", "m", "/", "f", "i", "l", "e", "/", "x", ".", "z", "i", "p">>

OtherLink == <<"h", "t", "t", "p", "s", ":", "/", "/", "e", "x", "a", "m", "p", "l", "e", ".", "c", "o", "m", "/", "x">>

\* a link to another host that names a supported platform in its path
PathOnlyLink == <<"h", "t", "t", "p", "s", ":", "/", "/", "e", "x", "a", "m", "p", "l", "e", ".", "c", "o", "m", "/", "m", "e", "g", "a", ".", "n", "z", "/", "x">>

\* a link of 100 characters or more
LongLink == MediaFireLink \o Repeat("a", 100)

Links == {<<>>, DriveLink, DriveLinkUpper, MegaLink, MediaFireLink, OtherLink, LongLink}

\* what the provider can put in one item: link, title, snippet
RawHits == [link : Links, title : Titles, snippet : Snippets]

\* ------------------------------------------------------------ processing

\* SearchEngine._identify_platform
identify_platform(url) ==
  LET url_lower == Lower(url) IN
  IF Contains(url_lower, SUPPORTED_PLATFORMS[1]) THEN "Google Drive"
  ELSE IF Contains(url_lower, SUPPORTED_PLATFORMS[2]) THEN "MediaFire"
  ELSE IF Contains(url_lower, SUPPORTED_PLATFORMS[3]) THEN "Mega"
  ELSE IF Contains(url_lower, SUPPORTED_PLATFORMS[4]) THEN "Dropbox"
  ELSE IF Contains(url_lower, SUPPORTED_PLATFORMS[5]) THEN "OneDrive"
  ELSE "Unknown"

\* a field the provider sent as null
None == <<"None">>

\* SearchEngine._process_search_result: the empty sequence when the hit is
\* rejected, else the one processed result. A null link is falsy; a null
\* title or snippet raises in strip or re.search, which the try/except of
\* the function turns into a rejection.
process_search_result(raw) ==
  IF raw.link = <<>> \/ raw.link = None THEN <<>>
  ELSE IF ~is_valid_platform(raw.link) THEN <<>>
  ELSE IF raw.title = None \/ raw.snippet = None THEN <<>>
  ELSE << [ title |-> Strip(raw.title),
            link |-> raw.link,
            snippet |-> Strip(raw.snippet),
            platform |-> identify_platform(raw.link),
            quality_score |-> calculate_quality_score(raw.title, raw.snippet, raw.link) ] >>

\* SearchEngine._estimate_content_size
estimate_content_size(result) ==
  LET snippet == Lower(result.snippet) IN
  IF Contains(snippet, <<"g", "b">>) THEN "Large (1GB+)"
  ELSE IF Contains(snippet, <<"m", "b">>) THEN "Medium (1-999MB)"
  ELSE "Unknown size"

\* ------------------------------------------------- deduplication, ranking

DedupKeyWithSnippet(result) == <<result.link, result.snippet>>

\* what seen_links holds for a result
DedupKey(result) == result.link

\* the loop of _filter_and_enhance_results: a result whose key was seen is
\* skipped; the key is recorded before the quality test; a result scoring
\* below 3 is skipped; the others are kept in arrival order
RECURSIVE FilterLoop(_, _)
FilterLoop(results, seen_links) ==
  IF results = <<>> THEN <<>>
  ELSE LET result == Head(results)
           seen == seen_links \cup {DedupKey(result)}
       IN IF DedupKey(result) \in seen_links THEN FilterLoop(Tail(results), seen_links)
          ELSE IF result.quality_score < 3 THEN FilterLoop(Tail(results), seen)
          ELSE << [ title |-> result.title,
                    link |-> result.link,
                    snippet |-> result.snippet,
                    platform |-> result.platform,
                    quality_score |-> result.quality_score,
                    estimated_size |-> estimate_content_size(result) ] >>
               \o FilterLoop(Tail(results), seen)

ScoresAtLeast(other, result) == other.quality_score >= result.quality_score

\* whether the sort puts a later element before an earlier one: only when it
\* scores strictly more (list.sort keeps equal keys in their order, also
\* with reverse=True)
ScoresAbove(other, result) == other.quality_score > result.quality_score

\* list.sort(key=quality_score, reverse=True): descending and stable
RECURSIVE SortByScore(_)
SortByScore(results) ==
  IF results = <<>> THEN <<>>
  ELSE LET first == Head(results)
           sorted == SortByScore(Tail(results))
           \* first goes before every later element it does not score below
           ahead == {k \in 1..Len(sorted) : ScoresAbove(sorted[k], first)}
           n == Cardinality(ahead)
       IN SubSeq(sorted, 1, n) \o <<first>> \o SubSeq(sorted, n + 1, Len(sorted))

\* SearchEngine._filter_and_enhance_results
filter_and_enhance_results(results) == SortByScore(FilterLoop(results, {}))

\* ---------------------------------------------------------------- batches

\* longest list of processed results given to the filter
MaxBatch == 3

\* largest max_results given to search_courses on its own
MaxCap == 3

\* the values of max_results
Caps == -1..MaxCap

DriveLinkQuery == DriveLink \o <<"?", "a">>

\* raw hits for the filter: three share one link and differ in title or
\* snippet (one of them scores below 3), one link differs from it by a query
\* string, one is on another platform
FilterHits ==
  { [link |-> DriveLink, title |-> <<"C", "o", "u", "r", "s", "e">>,
     snippet |-> <<"f", "r", "e", "e", " ", "d", "o", "w", "n", "l", "o", "a", "d">>],
    [link |-> DriveLink, title |-> <<"p", "y", "t", "h", "o", "n">>,
     snippet |-> <<"n", "o", "t", "e", "s">>],
    [link |-> DriveLink, title |-> <<"p", "r", "e", "v", "i", "e", "w", " ", "d", "e", "m", "o">>,
     snippet |-> <<>>],
    [link |-> DriveLinkQuery, title |-> <<"p", "y", "t", "h", "o", "n">>, snippet |-> <<>>],
    [link |-> MegaLink, title |-> <<"p", "y", "t", "h", "o", "n">>, snippet |-> <<>>] }

\* what _process_search_result makes of them
ProcessedHits == UNION {Range(process_search_result(raw)) : raw \in FilterHits}

NoHit == [link |-> <<>>, title |-> <<>>, snippet |-> <<>>]

\* ------------------------------------------------------------ rate limits

\* the users of the bot
Users == {"u1", "u2"}

\* RateLimiter.requests.get(user_id, [])
RequestsOf(requests, user_id) ==
  IF user_id \in DOMAIN requests THEN requests[user_id] ELSE <<>>

\* the timestamps is_allowed keeps: req_time > now - window
RecentRequests(reqs, now_, window) == SelectSeq(reqs, LAMBDA t : t > now_ - window)

RequestsOverLimit(kept, limit) == Len(kept) > limit

ForgetRequest(kept, now_) == kept

\* self.requests[user_id].append(now)
RecordRequest(kept, now_) == Append(kept, now_)

\* len(self.requests[user_id]) >= limit
RequestsAtLimit(kept, limit) == Len(kept) >= limit

\* RateLimiter.is_allowed: the verdict and the dictionary it leaves
is_allowed(requests, user_id, now_, limit, window) ==
  LET kept == RecentRequests(RequestsOf(requests, user_id), now_, window)
      ok == ~RequestsAtLimit(kept, limit)
      mine == IF ok THEN RecordRequest(kept, now_) ELSE kept
  IN  [ allowed |-> ok,
        requests |-> [v \in DOMAIN requests \cup {user_id} |->
                        IF v = user_id THEN mine ELSE requests[v]] ]

\* DELETE FROM rate_limits WHERE window_start < datetime('now', '-window seconds')
DeleteExpired(table, now_, window) ==
  [v \in {x \in DOMAIN table : ~(table[x].window_start < now_ - window)} |-> table[v]]

\* INSERT INTO rate_limits (user_id, search_count) VALUES (?, 1); window_start
\* defaults to CURRENT_TIMESTAMP
InsertRow(table, user_id, now_) ==
  [v \in DOMAIN table \cup {user_id} |->
     IF v = user_id THEN [search_count |-> 1, window_start |-> now_] ELSE table[v]]

\* UPDATE rate_limits SET search_count = search_count + 1 WHERE user_id = ?
IncrementRow(table, user_id) ==
  [v \in DOMAIN table |->
     IF v = user_id THEN [table[v] EXCEPT !.search_count = @ + 1] ELSE table[v]]

\* row[0] >= limit
RowAtLimit(row, limit) == row.search_count >= limit

FailClosed == FALSE

\* except Exception: return True  (allow on error)
FailOpen == TRUE

\* where a call of check_rate_limit can meet a storage fault: nowhere, on
\* connecting, in one of its statements, in the commit, or on closing
FaultPoints == {"none", "connect", "delete", "select", "write", "commit", "close"}

\* Database.check_rate_limit: the verdict and the committed table it leaves.
\* A fault raises inside the with block: get_connection rolls back and the
\* handler of check_rate_limit returns True. return False leaves without a
\* commit, so closing the connection rolls the DELETE back.
check_rate_limit(table, user_id, now_, limit, window, fault) ==
  LET purged == DeleteExpired(table, now_, window)
      present == user_id \in DOMAIN purged
      rejects == present /\ RowAtLimit(purged[user_id], limit)
  IN  IF fault \in {"connect", "delete", "select"}
        THEN [allowed |-> TRUE, table |-> table]
      ELSE IF rejects
        THEN [allowed |-> (fault = "close"), table |-> table]
      ELSE IF fault \in {"write", "commit"}
        THEN [allowed |-> TRUE, table |-> table]
      ELSE [ allowed |-> TRUE,
             table |-> IF present THEN IncrementRow(purged, user_id)
                       ELSE InsertRow(purged, user_id, now_) ]

\* the connections that run check_rate_limit side by side
Workers == {"w1", "w2"}

\* a connection that is not in a call
IdleConn ==
  [pc |-> "idle", user |-> "u1", txn |-> <<>>, path |-> "none", window |-> 0,
   faultAt |-> "none", result |-> "none"]

\* how many calls of check_rate_limit are followed statement by statement
MaxDbCalls == 5

\* the limit the gate is exercised with on its own
GateLimit == 3

\* how far the clock moves in one step, and where it stops
TimeStep == 30

MaxTime == 90

\* how many requests the gate is given on its own
MaxGateLog == 5

\* ------------------------------------------------------------ the pipeline

\* Database.check_rate_limit: default limit and window (seconds)
DB_DEFAULT_LIMIT == 10

DB_DEFAULT_WINDOW == 60

\* the for loop of _perform_search over organic_results
RECURSIVE ProcessOrganic(_)
ProcessOrganic(items) ==
  IF items = <<>> THEN <<>>
  ELSE process_search_result(Head(items)) \o ProcessOrganic(Tail(items))

\* the loop of _process_additional_results over the items it is given;
\* is_valid_platform raises on a null link (url.lower()), outside
\* _process_search_result: the except of _process_additional_results ends
\* the loop there
RECURSIVE ProcessRelated(_)
ProcessRelated(items) ==
  IF items = <<>> THEN <<>>
  ELSE IF Head(items).link = None THEN <<>>
  ELSE (IF is_valid_platform(Head(items).link)
          THEN process_search_result(Head(items)) ELSE <<>>)
       \o ProcessRelated(Tail(items))

\* SearchEngine._process_additional_results: people_also_ask[:3]
process_additional_results(paa) == ProcessRelated(SubSeq(paa, 1, Min(3, Len(paa))))

TruncateExclusive(results, max_results) ==
  SubSeq(results, 1, Min(max_results - 1, Len(results)))

KeepAll(results, max_results) == results

\* filtered_results[:max_results]: the first max_results elements; a negative
\* max_results counts from the end of the list
Truncate(results, max_results) ==
  SubSeq(results, 1, IF max_results >= 0 THEN Min(max_results, Len(results))
                     ELSE Max(0, Len(results) + max_results))

\* the order in which a SELECT ... ORDER BY timestamp DESC returns rows whose
\* timestamps are equal (CURRENT_TIMESTAMP counts whole seconds): SQL leaves
\* it open, the engine may give them as stored or reversed
TieOrders == {"oldest_first", "newest_first"}

\* whether the row at place i comes before the row at place j in ORDER BY
\* timestamp DESC; the places are those of insertion (the id of the row)
ComesBefore(rows, i, j, tie) ==
  \/ rows[i].timestamp > rows[j].timestamp
  \/ /\ rows[i].timestamp = rows[j].timestamp
     /\ IF tie = "oldest_first" THEN i < j ELSE i > j

\* the places of the rows in the order of ORDER BY timestamp DESC
NewestFirst(rows, tie) ==
  [k \in 1..Len(rows) |->
     CHOOSE i \in 1..Len(rows) :
       Cardinality({j \in 1..Len(rows) : ComesBefore(rows, j, i, tie)}) = k - 1]

\* the rows at the given places, in the order they are stored
RowsAt(rows, places) ==
  [m \in 1..Cardinality(places) |->
     rows[CHOOSE i \in places : Cardinality({j \in places : j < i}) = m - 1]]

\* Database.add_search_history: the new row is inserted with the time of the
\* clock, then the rows of the user that are not among the first 20 of
\* ORDER BY timestamp DESC are deleted
add_search_history(rows, query, results_count, now_, tie) ==
  LET all == Append(rows, [query |-> query, results_count |-> results_count,
                           timestamp |-> now_])
      order == NewestFirst(all, tie)
  IN  RowsAt(all, {order[k] : k \in 1..Min(20, Len(all))})

\* Database.get_search_history(user_id): the first 10 rows of ORDER BY
\* timestamp DESC
get_search_history(rows, tie) ==
  LET order == NewestFirst(rows, tie)
  IN  [k \in 1..Min(10, Len(rows)) |-> rows[order[k]]]

\* ----------------------------------------------------- users and settings

\* the keys the settings callbacks write, in the order they are rendered
SettingKeys == <<"results_per_page", "notifications">>

DigitChars == <<"0", "1", "2", "3", "4", "5", "6", "7", "8", "9">>

\* the decimal numeral of a natural number, as json.dumps writes it
RECURSIVE DecimalText(_)
DecimalText(n) ==
  IF n < 10 THEN <<DigitChars[n + 1]>>
  ELSE DecimalText(n \div 10) \o <<DigitChars[(n % 10) + 1]>>

\* the number a decimal numeral stands for, as json.loads reads it
RECURSIVE DecimalValue(_)
DecimalValue(text) ==
  IF text = <<>> THEN 0
  ELSE 10 * DecimalValue(SubSeq(text, 1, Len(text) - 1))
       + (CHOOSE d \in 0..9 : DigitChars[d + 1] = text[Len(text)])

\* the JSON literal of the value of a key
LiteralOf(key, value) ==
  IF key = "notifications"
    THEN (IF value THEN <<"t", "r", "u", "e">> ELSE <<"f", "a", "l", "s", "e">>)
    ELSE DecimalText(value)

\* the value a JSON literal of a key stands for
ValueOf(key, literal) ==
  IF key = "notifications" THEN literal = <<"t", "r", "u", "e">>
  ELSE DecimalValue(literal)

\* json.dumps of a settings dict: the members of the JSON object, each a key
\* and the characters of its value
json_dumps(settings) ==
  LET keys == SelectSeq(SettingKeys, LAMBDA k : k \in DOMAIN settings)
  IN  [i \in 1..Len(keys) |-> [key |-> keys[i], literal |-> LiteralOf(keys[i], settings[keys[i]])]]

\* json.loads of such a text: the dict of its members
json_loads(text) ==
  [k \in {text[i].key : i \in 1..Len(text)} |->
     LET i == CHOOSE j \in 1..Len(text) : text[j].key = k
     IN  ValueOf(k, text[i].literal)]

\* the column default of users.settings: '{}', an object without members
DEFAULT_SETTINGS == <<>>

\* the settings column of the row that INSERT OR REPLACE writes: the old row
\* is deleted and the column, which the statement does not name, takes its
\* default
ReplacedSettings(table, user_id) == DEFAULT_SETTINGS

\* Database.add_or_update_user: INSERT OR REPLACE INTO users (user_id,
\* username, first_name, last_name, last_active)
add_or_update_user(table, user_id, first_name) ==
  [u \in DOMAIN table \cup {user_id} |->
     IF u = user_id
       THEN [first_name |-> first_name, settings |-> ReplacedSettings(table, user_id)]
       ELSE table[u]]

\* Database.get_user_settings: the parsed settings column, {} when there is
\* no row (the column is never empty: it holds '{}' or a text of json.dumps)
get_user_settings(table, user_id) ==
  IF user_id \in DOMAIN table
    THEN json_loads(table[user_id].settings)
    ELSE <<>>

\* Database.update_user_settings: UPDATE users SET settings = ? WHERE
\* user_id = ?, which changes the rows that exist
update_user_settings(table, user_id, settings) ==
  [u \in DOMAIN table |->
     IF u = user_id THEN [table[u] EXCEPT !.settings = json_dumps(settings)]
     ELSE table[u]]

\* dict.get(key, default)
DictGet(dict, key, default) == IF key \in DOMAIN dict THEN dict[key] ELSE default

\* dict[key] = value
DictPut(dict, key, value) ==
  [k \in DOMAIN dict \cup {key} |-> IF k = key THEN value ELSE dict[k]]

\* (current_value % 10) + 3
NextResultsPerPage(current_value) == (current_value % 10) + 3

\* the callback data of the search options keyboard, without "search_"
SearchTypes == {"quick", "advanced", "drive", "mediafire", "mega", "all"}

\* first names of the users
FirstNames == {<<"A", "n", "n">>, <<"B", "o">>}

\* no update of the account handlers has been handled
NoUpdate == [kind |-> "none", user |-> "u1", settings |-> <<>>]

UpdateRaisesUncaught(delivered) == ~delivered

\* whether SearchProgress.update raises to its caller: its try/except logs a
\* failed delivery and returns
UpdateRaises(delivered) == FALSE

\* Config.PROGRESS_FRAMES has 5 glyphs
PROGRESS_FRAMES == 5

ProgressUpdateIgnoringStop(t, text, delivered) ==
  IF ~t.callback THEN t
  ELSE [t EXCEPT !.emissions = Append(@, text),
                 !.last_delivered = delivered,
                 !.current_frame = IF delivered THEN @ + 1 ELSE @]

\* SearchProgress.update on the task's progress object, when a callback was
\* given: a stopped object does nothing; a delivered text advances the glyph
\* index; a failed delivery leaves it. emissions lists the texts update tried
\* to deliver, last_delivered tells whether the last of them arrived.
ProgressUpdate(t, text, delivered) ==
  IF ~t.callback \/ ~t.is_active THEN t
  ELSE [t EXCEPT !.emissions = Append(@, text),
                 !.last_delivered = delivered,
                 !.current_frame = IF delivered THEN @ + 1 ELSE @]

ProgressRaisedWhenLost(t, delivered) == t.callback /\ t.is_active /\ ~delivered

\* whether that call raised into search_courses
ProgressRaised(t, delivered) == t.callback /\ t.is_active /\ UpdateRaises(delivered)

\* most calls of update made on a progress object on its own
MaxProgressCalls == 6

\* SearchProgress(message, config) as constructed, with what the transport
\* and the clock have seen of it: the glyph of each text given to edit_text,
\* the number of pacing delays, the number of calls of update, and what all
\* of these were when stop was first called
FreshProgress ==
  [ callback |-> TRUE, is_active |-> TRUE, current_frame |-> 0, emissions |-> <<>>,
    last_delivered |-> TRUE, glyphs |-> <<>>, delays |-> 0, calls |-> 0,
    stopped |-> FALSE,
    at_stop |-> [emissions |-> <<>>, glyphs |-> <<>>, current_frame |-> 0,
                 delays |-> 0, calls |-> 0] ]

\* one call of update(text) on the object p: ProgressUpdate, the glyph
\* PROGRESS_FRAMES[current_frame % len] put before a text that is sent, and
\* the delay after a delivery
UpdateCall(p, text, delivered) ==
  LET q == ProgressUpdate(p, text, delivered)
      sent == Len(q.emissions) > Len(p.emissions)
  IN  [q EXCEPT !.glyphs = IF sent THEN Append(@, p.current_frame % PROGRESS_FRAMES) ELSE @,
                !.delays = IF q.current_frame > p.current_frame THEN @ + 1 ELSE @,
                !.calls = @ + 1]

\* stop(): is_active = False
StopCall(p) ==
  [p EXCEPT !.is_active = FALSE,
            !.stopped = TRUE,
            !.at_stop = IF p.stopped THEN @
                        ELSE [emissions |-> p.emissions, glyphs |-> p.glyphs,
                              current_frame |-> p.current_frame, delays |-> p.delays,
                              calls |-> p.calls]]

\* longest query, in words, given to _build_search_query on its own
MaxQueryWords == 2

QueryWords ==
  { <<"p", "y", "t", "h", "o", "n">>, <<"C", "o", "u", "r", "s", "e">>, <<"c", "l", "a", "s", "s", "i", "c">>, <<"F", "I", "L", "E", "S">>, <<"-", "-">>, <<"c", "+", "+", "!">>, <<"m", "a", "t", "e", "r", "i", "a", "l", "s">> }

\* the queries given to _build_search_query on its own
QueryInputs == {JoinWords(ws) : ws \in SeqsUpTo(QueryWords, MaxQueryWords)}

\* the platform hints: none, two supported platforms, a supported one in
\* other letter case, an unsupported one
PlatformHints ==
  { <<>>, <<"m", "e", "g", "a", ".", "n", "z">>, <<"d", "r", "i", "v", "e", ".", "g", "o", "o", "g", "l", "e", ".", "c", "o", "m">>, <<"M", "e", "g", "a", ".", "N", "Z">>, <<"e", "x", "a", "m", "p", "l", "e", ".", "c", "o", "m">> }

\* no call of _build_search_query is followed on its own
IdleBuild == [query |-> <<>>, platform |-> <<>>, done |-> FALSE, search_query |-> <<>>]

\* ------------------------------------------------------ pipeline inputs

\* what users type
Queries ==
  { <<"p", "y">>, <<"-", "-">>, <<"a", "!">>, <<"-">>, <<" ", " ">> }

\* the query of the searches made before the model starts
WarmQuery == <<"p", "y">>

HitCourse ==
  [link |-> DriveLink, title |-> <<"C", "o", "u", "r", "s", "e">>,
   snippet |-> <<"f", "r", "e", "e", " ", "d", "o", "w", "n", "l", "o", "a", "d">>]

HitSameLink ==
  [link |-> DriveLink, title |-> <<"p", "y", "t", "h", "o", "n">>,
   snippet |-> <<"n", "o", "t", "e", "s">>]

HitMega == [link |-> MegaLink, title |-> <<"p", "y", "t", "h", "o", "n">>, snippet |-> <<>>]

HitElsewhere == [link |-> OtherLink, title |-> <<"C", "o", "u", "r", "s", "e">>, snippet |-> <<>>]

HitPathOnly == [link |-> PathOnlyLink, title |-> <<"p", "y", "t", "h", "o", "n">>, snippet |-> <<>>]

HitNullTitle == [link |-> MegaLink, title |-> None, snippet |-> <<>>]

HitNullLink == [link |-> None, title |-> <<"p", "y", "t", "h", "o", "n">>, snippet |-> <<>>]

\* the bodies the provider answers with: organic_results and people_also_ask
Responses ==
  { [organic |-> <<>>, paa |-> <<>>],
    [organic |-> <<HitCourse, HitNullTitle, HitNullLink, HitSameLink>>,
     paa |-> <<HitMega, HitElsewhere, NoHit>>],
    [organic |-> <<HitElsewhere, NoHit, HitMega, HitPathOnly>>,
     paa |-> <<HitNullLink, HitCourse>>] }

\* how the remote call can end: with a body of the expected shape, with a
\* transport failure (timeout, connection, status), with a body that is not
\* JSON, or with a JSON body that is not an object
ProviderOutcomes == {"ok", "transport", "malformed", "misshapen"}

\* the users whose updates the handlers are followed for; the others only
\* have rows in the database
Chatters == {"u1"}

\* how many searches a user may have made before the model starts
PriorSearches == {RATE_LIMIT_SEARCHES - 1, RATE_LIMIT_SEARCHES}

\* how many updates the bot handles
MaxUpdates == 1

\* no handler is running
IdleTask ==
  [ pc |-> "idle", kind |-> "none", user |-> "u1", query |-> <<>>,
    callback |-> FALSE, is_active |-> FALSE, current_frame |-> 0, emissions |-> <<>>,
    last_delivered |-> TRUE, awaiting |-> FALSE,
    admitted |-> [memory |-> FALSE, durable |-> FALSE], dbFault |-> FALSE,
    budget |-> [memory |-> 0, durable |-> 0],
    search_query |-> <<>>, netCall |-> FALSE, provider |-> "pending",
    response |-> [organic |-> <<>>, paa |-> <<>>], all_results |-> <<>>,
    max_results |-> MAX_RESULTS_PER_PAGE, results |-> <<>>, total_found |-> 0,
    outcome |-> "pending", reply |-> "none" ]

\* ----------------------------------------------------------------- state

VARIABLES
  hit,         \* the raw hit given to the scorer
  scored,      \* whether the scorer has run on it
  score,       \* the score it returned
  batch,       \* the processed results given to the filter
  filterDone,  \* whether the filter has run on them
  filtered,    \* the list it returned
  cap,         \* max_results of the call of search_courses around the filter
  returned,    \* how that call has left: "pending", "pair" or "empty"
  page,        \* the results it returned
  total_found, \* the count it returned
  now,         \* the clock, in seconds
  requests,    \* RateLimiter.requests: user -> timestamps of counted requests
  rate_limits, \* table rate_limits: user -> [search_count, window_start]
  gateLog,     \* the requests given to the gate on its own, with both verdicts
  dbLock,      \* the connection holding SQLite's write lock, or "free"
  conn,        \* connection -> where its call of check_rate_limit stands
  accepts,     \* the calls that counted a request and returned True, each with
               \* the window_start of the row it counted into
  task,        \* the handler that is running, step by step
  history,     \* table search_history: user -> rows, oldest first
  updates,     \* how many updates have been handled
  progress,    \* a SearchProgress object used on its own
  build,       \* a call of _build_search_query on its own: arguments and result
  users,       \* table users: user -> [first_name, settings]
  user_search_states, \* handlers.user_search_states: user -> stored preference
  handled      \* the last update of the account handlers: its kind, its user
               \* and the settings it gave to update_user_settings

scoreVars == <<hit, scored, score>>

filterVars == <<batch, filterDone, filtered, cap, returned, page, total_found>>

gateVars == <<now, requests, rate_limits, gateLog>>

dbVars == <<dbLock, conn, accepts>>

accountVars == <<users, user_search_states, handled>>

handlerVars == <<task, history, updates, progress, build, accountVars>>

vars ==
  <<hit, scored, score, batch, filterDone, filtered, cap, returned, page, total_found, now, requests, rate_limits, gateLog,
    dbLock, conn, accepts, task, history, updates, progress, build,
    users, user_search_states, handled>>

\* the scorer is not in use
ScoreIdle == hit = NoHit /\ scored = FALSE /\ score = 0

\* the filter is not in use
FilterIdle ==
  /\ batch = <<>> /\ filterDone = FALSE /\ filtered = <<>>
  /\ cap = MAX_RESULTS_PER_PAGE /\ returned = "pending" /\ page = <<>> /\ total_found = 0

\* the process has just started on an empty database
GateFresh ==
  /\ now = 0
  /\ requests = <<>>
  /\ rate_limits = <<>>
  /\ gateLog = <<>>

\* no call of check_rate_limit is followed statement by statement
DbIdle ==
  /\ dbLock = "free"
  /\ conn = [w \in Workers |-> IdleConn]
  /\ accepts = <<>>

\* nobody has sent /start or pressed a button
AccountIdle ==
  /\ users = <<>>
  /\ user_search_states = <<>>
  /\ handled = NoUpdate

\* no update is being handled and no search was ever stored
HandlerIdle ==
  /\ task = IdleTask
  /\ history = [u \in Users |-> <<>>]
  /\ updates = 0
  /\ progress = FreshProgress
  /\ build = IdleBuild
  /\ AccountIdle

\* ------------------------------------------------------- the scorer alone

ScoreInit ==
  /\ hit \in RawHits
  /\ scored = FALSE
  /\ score = 0
  /\ FilterIdle
  /\ GateFresh
  /\ DbIdle
  /\ HandlerIdle

\* one call of _calculate_quality_score
CalcScore ==
  /\ ~scored
  /\ score' = calculate_quality_score(hit.title, hit.snippet, hit.link)
  /\ scored' = TRUE
  /\ UNCHANGED <<hit, filterVars, gateVars, dbVars, handlerVars>>

SpecScore == ScoreInit /\ [][CalcScore]_vars

\* C9: whatever the title, the snippet and the link, the score returned by
\* _calculate_quality_score is an integer between 0 and 10.
C9_ScoreInRange == scored => (score \in Int /\ 0 <= score /\ score <= 10)

\* a hit whose negative terms take the raw score below 0 has been scored
C9_Witness ==
  /\ scored
  /\ RawQualityScore(hit.title, hit.snippet, hit.link) < 0
  /\ TermsPresent(negative_title_terms, Lower(hit.title)) >= 2

\* the bonus the classification of the link stands for
BonusOfPlatform(platform) ==
  IF platform = "Google Drive" THEN 2
  ELSE IF platform = "Mega" THEN 1
  ELSE 0

\* C23: the platform bonus follows the classification of the link: the score
\* of a candidate is the clamped sum of the other terms and of +2 when
\* _identify_platform calls the link Google Drive, +1 when it calls it Mega,
\* and nothing for any other platform.
C23_BonusFollowsPlatform ==
  scored =>
    score = ClampScore(RawQualityScore(hit.title, hit.snippet, hit.link)
                       - PlatformBonus(hit.link)
                       + BonusOfPlatform(identify_platform(hit.link)))

\* ------------------------------------------------------- the filter alone

FilterInit ==
  /\ batch \in SeqsUpTo(ProcessedHits, MaxBatch)
  /\ filterDone = FALSE
  /\ filtered = <<>>
  /\ cap \in Caps
  /\ returned = "pending"
  /\ page = <<>>
  /\ total_found = 0
  /\ ScoreIdle
  /\ GateFresh
  /\ DbIdle
  /\ HandlerIdle

\* one call of _filter_and_enhance_results
FilterBatch ==
  /\ ~filterDone
  /\ returned = "pending"
  /\ filtered' = filter_and_enhance_results(batch)
  /\ filterDone' = TRUE
  /\ UNCHANGED <<batch, cap, returned, page, total_found,
                 scoreVars, gateVars, dbVars, handlerVars>>

\* search_courses returns filtered_results[:max_results], len(filtered_results)
ReturnPage ==
  /\ filterDone
  /\ returned = "pending"
  /\ page' = Truncate(filtered, cap)
  /\ total_found' = Len(filtered)
  /\ returned' = "pair"
  /\ UNCHANGED <<batch, filterDone, filtered, cap, scoreVars, gateVars, dbVars, handlerVars>>

\* an exception anywhere in the try block of search_courses: return [], 0
ReturnEmpty ==
  /\ returned = "pending"
  /\ page' = <<>>
  /\ total_found' = 0
  /\ returned' = "empty"
  /\ UNCHANGED <<batch, filterDone, filtered, cap, scoreVars, gateVars, dbVars, handlerVars>>

SpecFilter == FilterInit /\ [][FilterBatch \/ ReturnPage \/ ReturnEmpty]_vars

\* the place of the first result of the batch with this link
FirstWithLink(link) == CHOOSE i \in 1..Len(batch) :
  /\ batch[i].link = link
  /\ \A j \in 1..(i - 1) : batch[j].link # link

\* the places of the output that carry this link
OutputWithLink(link) == {k \in 1..Len(filtered) : filtered[k].link = link}

\* C10: of the results that share a link only the first encountered can be in
\* the output of _filter_and_enhance_results (it is, once, when it scores 3 or
\* more); a later one with the same link never is, whatever its snippet; and
\* results whose links differ are never merged.
C10_FirstLinkWins ==
  filterDone =>
    \A link \in {batch[i].link : i \in 1..Len(batch)} :
      LET first == batch[FirstWithLink(link)] IN
      /\ Cardinality(OutputWithLink(link)) = (IF first.quality_score >= 3 THEN 1 ELSE 0)
      /\ \A k \in OutputWithLink(link) :
           /\ filtered[k].snippet = first.snippet
           /\ filtered[k].title = first.title
           /\ filtered[k].quality_score = first.quality_score

\* two results with one link and different snippets went through the filter,
\* together with a result whose link differs by a query string only
C10_Witness ==
  /\ filterDone
  /\ \E i, j \in 1..Len(batch) :
       /\ i < j
       /\ batch[i].link = batch[j].link
       /\ batch[i].snippet # batch[j].snippet
       /\ batch[i].quality_score >= 3
       /\ batch[j].quality_score >= 3
  /\ \E i \in 1..Len(batch) : batch[i].link = DriveLinkQuery
  /\ Len(filtered) = 2

\* C27: deduplication never loses a qualifying link: when some candidate of
\* the batch with a link scores 3 or more, the survivors of
\* _filter_and_enhance_results hold exactly one result with that link.
C27_QualifyingLinkSurvives ==
  filterDone =>
    \A i \in 1..Len(batch) :
      batch[i].quality_score >= 3 =>
        Cardinality(OutputWithLink(batch[i].link)) = 1

\* the place of the first result of the batch with this link
ArrivalOf(link) == FirstWithLink(link)

\* C11: results with identical scores leave _filter_and_enhance_results in
\* the order they arrived in: of two results of the output with the same
\* score, the one that comes first in the output came first in the input.
C11_StableOrder ==
  filterDone =>
    \A a, b \in 1..Len(filtered) :
      (a < b /\ filtered[a].quality_score = filtered[b].quality_score) =>
        ArrivalOf(filtered[a].link) < ArrivalOf(filtered[b].link)

\* two results with the same score went through the filter behind a result
\* scoring less, which the sort moved behind them
C11_Witness ==
  /\ filterDone
  /\ Len(filtered) = 3
  /\ filtered[1].quality_score = filtered[2].quality_score
  /\ filtered[1].link # filtered[2].link
  /\ filtered[3].quality_score < filtered[2].quality_score
  /\ batch[1].link = filtered[3].link

\* C12: whenever search_courses returns, the count it returns is at least the
\* length of the list it returns, and equal to it when the count does not
\* exceed max_results; on the success path the count is the number of
\* results left by the filter, before truncation.
C12_CountCoversPage ==
  returned # "pending" =>
    /\ total_found >= Len(page)
    /\ total_found <= cap => total_found = Len(page)
    /\ returned = "pair" => total_found = Len(filtered)

\* a call returned fewer results than survived, and another as many as
\* survived with the cap just reached
C12_Witness ==
  /\ returned = "pair"
  /\ cap >= 1
  /\ Len(filtered) >= 2
  /\ \/ total_found > cap /\ Len(page) = cap
     \/ total_found = cap

\* C13: the list search_courses returns is in non-increasing order of
\* quality score, holds no result scoring below 3 and, for max_results >= 0,
\* at most max_results elements.
C13_PageRankedAndCapped ==
  returned # "pending" =>
    /\ \A k \in 1..(Len(page) - 1) : page[k].quality_score >= page[k + 1].quality_score
    /\ \A k \in 1..Len(page) : page[k].quality_score >= 3
    /\ cap >= 0 => Len(page) <= cap

\* a batch with a result scoring below 3 and two others out of order came
\* back sorted, without the low one, and cut to the cap
C13_Witness ==
  /\ returned = "pair"
  /\ cap = 1
  /\ Len(page) = 1
  /\ Len(filtered) = 2
  /\ \E k \in 1..Len(batch) : batch[k].quality_score < 3
  /\ \E i, j \in 1..Len(batch) :
       /\ i < j
       /\ 3 <= batch[i].quality_score
       /\ batch[i].quality_score < batch[j].quality_score
       /\ page[1].link = batch[j].link

\* --------------------------------------------------------- the gate alone

GateInit == GateFresh /\ ScoreIdle /\ FilterIdle /\ DbIdle /\ HandlerIdle

\* time passes
GateTick ==
  /\ now + TimeStep <= MaxTime
  /\ now' = now + TimeStep
  /\ UNCHANGED <<requests, rate_limits, gateLog, scoreVars, filterVars, dbVars, handlerVars>>

\* one request of a user is put to each layer, with limit GateLimit and the
\* configured window, and no storage fault
GateRequest(user_id) ==
  /\ Len(gateLog) < MaxGateLog
  /\ LET a == is_allowed(requests, user_id, now, GateLimit, RATE_LIMIT_WINDOW)
         b == check_rate_limit(rate_limits, user_id, now, GateLimit, RATE_LIMIT_WINDOW, "none")
     IN  /\ requests' = a.requests
         /\ rate_limits' = b.table
         /\ gateLog' = Append(gateLog, [user |-> user_id, at |-> now,
                                        memory |-> a.allowed, durable |-> b.allowed])
  /\ UNCHANGED <<now, scoreVars, filterVars, dbVars, handlerVars>>

GateNext == GateTick \/ \E user_id \in Users : GateRequest(user_id)

SpecGate == GateInit /\ [][GateNext]_vars

\* the requests of one user, in order
LogOf(user_id) == SelectSeq(gateLog, LAMBDA e : e.user = user_id)

\* C3: for each layer and each user, counting from the user's first request:
\* the first GateLimit requests made less than a window after it are allowed,
\* the next one made less than a window after it is rejected, and a request
\* made more than a window after it, when all earlier ones were made less
\* than a window after it, is allowed again. (A request made exactly one
\* window after the first is left open: the two layers treat it differently.)
C3_WindowedLimit ==
  \A user_id \in Users :
    LET log == LogOf(user_id)
        inside(i) == log[i].at - log[1].at < RATE_LIMIT_WINDOW
        after(i) == log[i].at - log[1].at > RATE_LIMIT_WINDOW
    IN  \A i \in 1..Len(log) :
          /\ (i <= GateLimit /\ inside(i)) => (log[i].memory /\ log[i].durable)
          /\ (i = GateLimit + 1 /\ inside(i)) => (~log[i].memory /\ ~log[i].durable)
          /\ (after(i) /\ \A j \in 1..(i - 1) : inside(j)) =>
               (log[i].memory /\ log[i].durable)

\* a user made GateLimit + 1 requests inside one window and one after it
C3_Witness ==
  \E user_id \in Users :
    LET log == LogOf(user_id) IN
    /\ Len(log) = GateLimit + 2
    /\ log[GateLimit + 1].at - log[1].at < RATE_LIMIT_WINDOW
    /\ log[GateLimit + 1].at > log[1].at
    /\ ~log[GateLimit + 1].memory
    /\ log[GateLimit + 2].at - log[1].at > RATE_LIMIT_WINDOW
    /\ log[GateLimit + 2].durable

\* ------------------------------------- check_rate_limit, statement by statement

DbInit == GateFresh /\ ScoreIdle /\ FilterIdle /\ DbIdle /\ HandlerIdle

dbRest == <<requests, gateLog, scoreVars, filterVars, handlerVars>>

\* the calls begun so far
DbCallsBegun ==
  Len(accepts) + Cardinality({w \in Workers : conn[w].pc # "idle"})

\* time passes
DbTick ==
  /\ now + TimeStep <= MaxTime
  /\ now' = now + TimeStep
  /\ UNCHANGED <<rate_limits, dbVars, dbRest>>

\* check_rate_limit(user_id) is called on a connection of its own
DbCall(w, user_id) ==
  /\ conn[w].pc = "idle"
  /\ DbCallsBegun < MaxDbCalls
  /\ conn' = [conn EXCEPT ![w] = [IdleConn EXCEPT !.pc = "connect", !.user = user_id]]
  /\ UNCHANGED <<now, rate_limits, dbLock, accepts, dbRest>>

\* sqlite3.connect
DbConnect(w) ==
  /\ conn[w].pc = "connect"
  /\ conn' = [conn EXCEPT ![w].pc = "delete"]
  /\ UNCHANGED <<now, rate_limits, dbLock, accepts, dbRest>>

WriteLockIgnored(w) == TRUE

\* the DELETE opens the transaction: it runs once no other connection holds
\* the write lock
WriteLockAvailable(w) == dbLock \in {"free", w}

\* the DELETE of the expired rows: takes the write lock, works on the
\* transaction's copy of the table
DbDelete(w) ==
  /\ conn[w].pc = "delete"
  /\ WriteLockAvailable(w)
  /\ dbLock' = w
  /\ conn' = [conn EXCEPT ![w].pc = "select",
                          ![w].txn = DeleteExpired(rate_limits, now, RATE_LIMIT_WINDOW)]
  /\ UNCHANGED <<now, rate_limits, accepts, dbRest>>

\* the SELECT of the user's row and the branch on it
DbSelect(w) ==
  /\ conn[w].pc = "select"
  /\ LET u == conn[w].user
         t == conn[w].txn
     IN  conn' = [conn EXCEPT ![w].pc =
                    IF u \notin DOMAIN t THEN "insert"
                    ELSE IF RowAtLimit(t[u], GateLimit) THEN "reject"
                    ELSE "update"]
  /\ UNCHANGED <<now, rate_limits, dbLock, accepts, dbRest>>

\* the INSERT of the first request of a window
DbInsert(w) ==
  /\ conn[w].pc = "insert"
  /\ conn' = [conn EXCEPT ![w].pc = "commit", ![w].path = "insert", ![w].window = now,
                          ![w].txn = InsertRow(conn[w].txn, conn[w].user, now)]
  /\ UNCHANGED <<now, rate_limits, dbLock, accepts, dbRest>>

\* the UPDATE that counts one more request
DbUpdate(w) ==
  /\ conn[w].pc = "update"
  /\ conn' = [conn EXCEPT ![w].pc = "commit", ![w].path = "update",
                          ![w].window = conn[w].txn[conn[w].user].window_start,
                          ![w].txn = IncrementRow(conn[w].txn, conn[w].user)]
  /\ UNCHANGED <<now, rate_limits, dbLock, accepts, dbRest>>

\* conn.commit() and return True
DbCommit(w) ==
  /\ conn[w].pc = "commit"
  /\ rate_limits' = conn[w].txn
  /\ dbLock' = "free"
  /\ accepts' = Append(accepts, [user |-> conn[w].user, window |-> conn[w].window])
  /\ conn' = [conn EXCEPT ![w].pc = "done", ![w].result = "allowed"]
  /\ UNCHANGED <<now, dbRest>>

\* return False: the connection is closed without a commit, which rolls the
\* transaction back
DbReject(w) ==
  /\ conn[w].pc = "reject"
  /\ dbLock' = IF dbLock = w THEN "free" ELSE dbLock
  /\ conn' = [conn EXCEPT ![w].pc = "done", ![w].result = "rejected"]
  /\ UNCHANGED <<now, rate_limits, accepts, dbRest>>

\* a storage fault (no file, a locked database, a failed statement, a failed
\* commit or close): get_connection rolls back and re-raises, the handler of
\* check_rate_limit returns
DbFault(w) ==
  /\ conn[w].pc \in {"connect", "delete", "select", "insert", "update", "commit", "reject"}
  /\ dbLock' = IF dbLock = w THEN "free" ELSE dbLock
  /\ conn' = [conn EXCEPT ![w].pc = "done", ![w].faultAt = conn[w].pc,
                          ![w].result = IF FailOpen THEN "allowed" ELSE "rejected"]
  /\ UNCHANGED <<now, rate_limits, accepts, dbRest>>

\* the caller has the verdict
DbReturn(w) ==
  /\ conn[w].pc = "done"
  /\ conn' = [conn EXCEPT ![w] = IdleConn]
  /\ UNCHANGED <<now, rate_limits, dbLock, accepts, dbRest>>

DbNext ==
  \/ DbTick
  \/ \E w \in Workers :
       \/ \E user_id \in Users : DbCall(w, user_id)
       \/ DbConnect(w)
       \/ DbDelete(w)
       \/ DbSelect(w)
       \/ DbInsert(w)
       \/ DbUpdate(w)
       \/ DbCommit(w)
       \/ DbReject(w)
       \/ DbFault(w)
       \/ DbReturn(w)

SpecDb == DbInit /\ [][DbNext]_vars

\* the requests of a user counted into the window of the stored row
CountedInWindow(user_id) ==
  Cardinality({i \in 1..Len(accepts) :
                 /\ accepts[i].user = user_id
                 /\ accepts[i].window = rate_limits[user_id].window_start})

\* C4: however the statements of concurrent calls of check_rate_limit
\* interleave, the stored count of a user is the number of that user's
\* requests counted and accepted in the row's window (each raised it
\* by exactly one: none lost, none counted twice), and it never exceeds the
\* limit.
C4_CountedOncePerAccept ==
  \A user_id \in DOMAIN rate_limits :
    /\ rate_limits[user_id].search_count = CountedInWindow(user_id)
    /\ CountedInWindow(user_id) <= GateLimit

\* two calls for one user are in flight at once, one of them waiting for the
\* write lock the other holds, with the user's count already at the limit
C4_Witness ==
  \E w, v \in Workers :
    /\ w # v
    /\ conn[w].user = conn[v].user
    /\ conn[w].pc = "delete"
    /\ conn[v].pc \in {"select", "reject"}
    /\ dbLock = v
    /\ conn[v].user \in DOMAIN rate_limits
    /\ rate_limits[conn[v].user].search_count = GateLimit

\* C5: a call of check_rate_limit that met a storage fault, at whatever step,
\* returned allowed: it neither returned rejected nor raised.
C5_FailOpen ==
  \A w \in Workers :
    (conn[w].pc = "done" /\ conn[w].faultAt # "none") => conn[w].result = "allowed"

\* a call failed in its commit, after the user's count had reached the limit
\* in an earlier window
C5_Witness ==
  \E w \in Workers :
    /\ conn[w].pc = "done"
    /\ conn[w].faultAt = "commit"
    /\ conn[w].user \in DOMAIN rate_limits
    /\ rate_limits[conn[w].user].search_count = GateLimit

\* ---------------------------------------------- the query builder alone

BuildInit ==
  /\ build \in [query : QueryInputs, platform : PlatformHints, done : {FALSE},
                search_query : {<<>>}]
  /\ task = IdleTask
  /\ history = [u \in Users |-> <<>>]
  /\ updates = 0
  /\ progress = FreshProgress
  /\ AccountIdle
  /\ GateFresh /\ ScoreIdle /\ FilterIdle /\ DbIdle

\* one call of _build_search_query
BuildQuery ==
  /\ ~build.done
  /\ build' = [build EXCEPT !.done = TRUE,
                            !.search_query = build_search_query(build.query, build.platform)]
  /\ UNCHANGED <<task, history, updates, progress, accountVars, scoreVars, filterVars, gateVars, dbVars>>

SpecBuild == BuildInit /\ [][BuildQuery]_vars

\* whether s ends with t
EndsWith(s, t) == Len(t) <= Len(s) /\ SubSeq(s, Len(s) - Len(t) + 1, Len(s)) = t

\* how often t occurs in s
Occurrences(s, t) ==
  Cardinality({i \in 1..(Len(s) - Len(t) + 1) : SubSeq(s, i, i + Len(t) - 1) = t})

\* the site restriction over the five supported platforms, as it ends a
\* query built without a platform
AllSitesGroup ==
  <<" ", "(", "s", "i", "t", "e", ":", "d", "r", "i", "v", "e", ".", "g", "o", "o", "g", "l", "e", ".", "c", "o", "m", " ", "O", "R", " ", "s", "i", "t", "e", ":", "m", "e", "d", "i", "a", "f", "i", "r", "e", ".", "c", "o", "m", " ", "O", "R", " ", "s", "i", "t", "e", ":", "m", "e", "g", "a", ".", "n", "z", " ", "O", "R", " ", "s", "i", "t", "e", ":", "d", "r", "o", "p", "b", "o", "x", ".", "c", "o", "m", " ", "O", "R", " ", "s", "i", "t", "e", ":", "o", "n", "e", "d", "r", "i", "v", "e", ".", "l", "i", "v", "e", ".", "c", "o", "m", ")">>

\* C19: for a query that is not empty after normalization and no platform
\* hint, the built query is the normalized query, then " course" exactly when
\* no course term occurs in it in any letter case, then " download" exactly
\* when no download term does, then the OR group over the five platforms in
\* their order; so it contains a course term and a download term.
C19_TermsAndAllSites ==
  (build.done /\ build.platform = <<>> /\ NormalizeQuery(build.query) # <<>>) =>
    LET clean == NormalizeQuery(build.query)
        out == build.search_query
        head == SubSeq(out, 1, Len(out) - Len(AllSitesGroup))
    IN  /\ EndsWith(out, AllSitesGroup)
        /\ AnyTermIn(course_terms, Lower(head))
        /\ AnyTermIn(file_indicators, Lower(head))
        /\ head = clean
                  \o (IF AnyTermIn(course_terms, Lower(clean)) THEN <<>>
                      ELSE <<" ", "c", "o", "u", "r", "s", "e">>)
                  \o (IF AnyTermIn(file_indicators, Lower(clean)) THEN <<>>
                      ELSE <<" ", "d", "o", "w", "n", "l", "o", "a", "d">>)

\* a query with a course term in capitals and no download term was built:
\* only " download" was appended
C19_Witness ==
  /\ build.done
  /\ build.platform = <<>>
  /\ build.query = <<"C", "o", "u", "r", "s", "e", " ", "c", "+", "+", "!">>
  /\ build.search_query = <<"C", "o", "u", "r", "s", "e", " ", "c", " ", "d", "o", "w", "n", "l", "o", "a", "d">> \o AllSitesGroup

\* C20: with a platform hint that is one of the supported platforms the built
\* query ends with a single site term for that platform and has no group;
\* with no hint, or a hint that is not one of them, it ends with the OR group
\* over the five supported platforms.
C20_HintSelectsSites ==
  build.done =>
    LET out == build.search_query
        site == <<"s", "i", "t", "e", ":">>
    IN  IF build.platform # <<>> /\ build.platform \in Range(SUPPORTED_PLATFORMS)
          THEN /\ EndsWith(out, <<" ">> \o site \o build.platform)
               /\ Occurrences(out, site) = 1
               /\ Occurrences(out, <<"(">>) = 0
          ELSE /\ EndsWith(out, AllSitesGroup)
               /\ Occurrences(out, site) = Len(SUPPORTED_PLATFORMS)

\* a query was built for the hint mega.nz
C20_Witness ==
  /\ build.done
  /\ build.platform = <<"m", "e", "g", "a", ".", "n", "z">>
  /\ build.query = <<"p", "y", "t", "h", "o", "n">>
  /\ build.search_query = <<"p", "y", "t", "h", "o", "n", " ", "c", "o", "u", "r", "s", "e", " ", "d", "o", "w", "n", "l", "o", "a", "d", " ", "s", "i", "t", "e", ":", "m", "e", "g", "a", ".", "n", "z">>

\* ------------------------------------------- a progress object on its own

ProgressInit == GateFresh /\ ScoreIdle /\ FilterIdle /\ DbIdle /\ HandlerIdle

\* update(text) is called, and the transport delivers the text or fails
ProgressCall(text, delivered) ==
  /\ progress.calls < MaxProgressCalls
  /\ progress' = UpdateCall(progress, text, delivered)
  /\ UNCHANGED <<task, history, updates, build, accountVars, scoreVars, filterVars, gateVars, dbVars>>

\* stop() is called
ProgressStop ==
  /\ progress' = StopCall(progress)
  /\ UNCHANGED <<task, history, updates, build, accountVars, scoreVars, filterVars, gateVars, dbVars>>

ProgressNext ==
  \/ \E text \in {"searching", "completed"}, delivered \in BOOLEAN :
       ProgressCall(text, delivered)
  \/ ProgressStop

SpecProgress == ProgressInit /\ [][ProgressNext]_vars

\* C18: once stop has been called, every later call of update is a no-op:
\* nothing more is given to the transport, the glyph index stays, no further
\* delay is applied, and the object stays stopped.
C18_StoppedStaysSilent ==
  progress.stopped =>
    /\ ~progress.is_active
    /\ progress.emissions = progress.at_stop.emissions
    /\ progress.glyphs = progress.at_stop.glyphs
    /\ progress.current_frame = progress.at_stop.current_frame
    /\ progress.delays = progress.at_stop.delays

\* update was called twice after a stop that followed a delivered and a
\* failed emission
C18_Witness ==
  /\ progress.stopped
  /\ progress.calls >= progress.at_stop.calls + 2
  /\ progress.at_stop.current_frame >= 1
  /\ Len(progress.at_stop.emissions) > progress.at_stop.current_frame

\* ------------------------------------------------------------ the handlers

\* each user has made k searches for WarmQuery at time 0, in this process,
\* whose remote call failed: k timestamps, a row counting k, k history rows;
\* k is any of PriorSearches for a chatter and the limit for the others
Init ==
  /\ now = 0
  /\ \E k \in [Users -> PriorSearches] :
       /\ \A u \in Users \ Chatters : k[u] = RATE_LIMIT_SEARCHES
       /\ requests = [u \in {v \in Users : k[v] > 0} |-> [i \in 1..k[u] |-> 0]]
       /\ rate_limits = [u \in {v \in Users : k[v] > 0} |->
                           [search_count |-> k[u], window_start |-> 0]]
       /\ history = [u \in Users |-> [i \in 1..k[u] |->
                                        [query |-> WarmQuery, results_count |-> 0,
                                         timestamp |-> 0]]]
  /\ task = IdleTask
  /\ updates = 0
  /\ gateLog = <<>>
  /\ progress = FreshProgress
  /\ build = IdleBuild
  /\ AccountIdle
  /\ ScoreIdle /\ FilterIdle /\ DbIdle

pipeRest == <<gateLog, scoreVars, filterVars, dbVars, progress, build, accountVars>>

\* more than a window of time passes between two updates (a handler reads
\* the clock in its first step only)
Tick ==
  /\ task.pc = "idle"
  /\ now + RATE_LIMIT_WINDOW + 1 <= MaxTime
  /\ now' = now + RATE_LIMIT_WINDOW + 1
  /\ UNCHANGED <<requests, rate_limits, handlerVars, pipeRest>>

\* the process is restarted between two updates: the RateLimiter is built
\* anew, the database stays
Restart ==
  /\ task.pc = "idle"
  /\ requests # <<>>
  /\ requests' = <<>>
  /\ UNCHANGED <<now, rate_limits, handlerVars, pipeRest>>

\* search_handler up to the call of search_courses: the text is stripped and
\* validated, then put to the RateLimiter, then to check_rate_limit
SearchMessage(user_id, text, fault) ==
  /\ task.pc = "idle"
  /\ updates < MaxUpdates
  /\ LET query == Strip(text)
         a == is_allowed(requests, user_id, now, RATE_LIMIT_SEARCHES, RATE_LIMIT_WINDOW)
         b == check_rate_limit(rate_limits, user_id, now, DB_DEFAULT_LIMIT,
                               DB_DEFAULT_WINDOW, fault)
         purged == DeleteExpired(rate_limits, now, DB_DEFAULT_WINDOW)
         t == [IdleTask EXCEPT !.kind = "typed", !.user = user_id, !.query = query]
     IN  IF ~is_valid_search_query(query)
           THEN /\ task' = [t EXCEPT !.pc = "done", !.reply = "invalid_query"]
                /\ UNCHANGED <<requests, rate_limits>>
         ELSE IF ~a.allowed
           THEN /\ task' = [t EXCEPT !.pc = "done", !.reply = "rate_limit"]
                /\ requests' = a.requests
                /\ UNCHANGED rate_limits
         ELSE /\ requests' = a.requests
              /\ rate_limits' = b.table
              /\ task' =
                   IF ~b.allowed
                     THEN [t EXCEPT !.pc = "done", !.reply = "rate_limit",
                                    !.admitted = [memory |-> TRUE, durable |-> FALSE]]
                     ELSE [t EXCEPT !.pc = "prepare", !.callback = TRUE, !.is_active = TRUE,
                                    !.admitted = [memory |-> TRUE, durable |-> TRUE],
                                    !.dbFault = (fault # "none"),
                                    !.budget =
                                      [memory |-> Len(RecentRequests(
                                                    RequestsOf(requests, user_id), now,
                                                    RATE_LIMIT_WINDOW)),
                                       durable |-> IF user_id \in DOMAIN purged
                                                     THEN purged[user_id].search_count
                                                     ELSE 0]]
  /\ UNCHANGED <<now, history, updates, pipeRest>>

\* handle_history_callbacks, action "search": the query of a stored row is
\* searched again; search_courses is called without a progress callback
HistoryRerun(user_id, search_index) ==
  /\ task.pc = "idle"
  /\ updates < MaxUpdates
  /\ \E tie \in TieOrders :
       LET rows == get_search_history(history[user_id], tie) IN
       /\ 0 <= search_index /\ search_index < Len(rows)
       /\ task' = [IdleTask EXCEPT !.pc = "prepare", !.kind = "history", !.user = user_id,
                                   !.query = rows[search_index + 1].query]
  /\ UNCHANGED <<now, requests, rate_limits, history, updates, pipeRest>>

\* the statements of search_courses and _perform_search that emit
EmittingPcs ==
  {"prepare", "searching", "querying", "parsing", "processing", "completed", "failed"}

\* await progress_callback(text): search_courses calls update and is suspended
\* in it while the text is sent and the pacing delay runs
EmitBegin ==
  /\ task.pc \in EmittingPcs
  /\ task.callback /\ task.is_active
  /\ ~task.awaiting
  /\ task' = [task EXCEPT !.awaiting = TRUE]
  /\ UNCHANGED <<now, requests, rate_limits, history, updates, pipeRest>>

\* whether search_courses can run the statements after an emission: update
\* has been called and returns now (or no callback was given)
EmitReturns == (task.callback /\ task.is_active) => task.awaiting

\* the running request when update has returned
Emit(text, delivered) == [ProgressUpdate(task, text, delivered) EXCEPT !.awaiting = FALSE]

\* the end of one progress emission of search_courses and the statements that
\* follow it up to the next one; an emission that raises inside the try block
\* leads to the except block
Stage(pc, text, delivered, after) ==
  /\ task.pc = pc
  /\ EmitReturns
  /\ task' = IF ProgressRaised(task, delivered)
               THEN [Emit(text, delivered) EXCEPT !.pc = "failed"]
               ELSE after
  /\ UNCHANGED <<now, requests, rate_limits, history, updates, pipeRest>>

\* "Preparing search..." and _build_search_query
ScPrepare(delivered) ==
  Stage("prepare", "preparing", delivered,
        [Emit("preparing", delivered) EXCEPT
           !.pc = "searching",
           !.search_query = build_search_query(task.query, <<>>)])

\* "Searching platforms..." and the call of _perform_search
ScSearching(delivered) ==
  Stage("searching", "searching", delivered,
        [Emit("searching", delivered) EXCEPT !.pc = "querying"])

\* "Querying search engine..."
ScQuerying(delivered) ==
  Stage("querying", "querying provider", delivered,
        [Emit("querying provider", delivered) EXCEPT !.pc = "fetch"])

\* session.get, raise_for_status and response.json: the one remote call; a
\* failure is raised again by _perform_search and caught by search_courses
ScFetch(outcome, body) ==
  /\ task.pc = "fetch"
  /\ task' = IF outcome = "ok"
               THEN [task EXCEPT !.pc = "parsing", !.netCall = TRUE, !.provider = outcome,
                                 !.response = body]
             ELSE IF outcome = "misshapen"
               THEN [task EXCEPT !.pc = "parsing", !.netCall = TRUE, !.provider = outcome]
             ELSE [task EXCEPT !.pc = "failed", !.netCall = TRUE, !.provider = outcome]
  /\ UNCHANGED <<now, requests, rate_limits, history, updates, pipeRest>>

\* "Parsing results...", the organic results and the related questions;
\* data.get raises on a body that is not an object
ScParsing(delivered) ==
  Stage("parsing", "parsing", delivered,
        IF task.provider = "misshapen"
          THEN [Emit("parsing", delivered) EXCEPT !.pc = "failed"]
          ELSE [Emit("parsing", delivered) EXCEPT
                  !.pc = "processing",
                  !.all_results = ProcessOrganic(task.response.organic)
                                  \o process_additional_results(task.response.paa)])

\* "Processing results..." and _filter_and_enhance_results
ScProcessing(delivered) ==
  Stage("processing", "processing", delivered,
        [Emit("processing", delivered) EXCEPT
           !.pc = "completed",
           !.results = filter_and_enhance_results(task.all_results)])

TotalFoundAtLeastOne(results) == Max(1, Len(results))

\* the second component of the returned pair: len(filtered_results)
TotalFound(results) == Len(results)

\* "Search completed!" and return filtered_results[:max_results], len(...)
ScCompleted(delivered) ==
  Stage("completed", "completed", delivered,
        [Emit("completed", delivered) EXCEPT
           !.pc = "returned", !.outcome = "pair",
           !.total_found = TotalFound(task.results),
           !.results = Truncate(task.results, task.max_results)])

CompletedSignal == "completed"

\* what the except block of search_courses emits
FailureSignal == "failed"

\* the except block of search_courses: "Search failed" and return [], 0; an
\* emission that raises here leaves search_courses as an exception
ScFailed(delivered) ==
  /\ task.pc = "failed"
  /\ EmitReturns
  /\ LET t == Emit(FailureSignal, delivered) IN
     task' = IF ProgressRaised(task, delivered)
               THEN [t EXCEPT !.pc = "returned", !.outcome = "raised",
                              !.results = <<>>, !.total_found = 0]
               ELSE [t EXCEPT !.pc = "returned", !.outcome = "pair",
                              !.results = <<>>, !.total_found = 0]
  /\ UNCHANGED <<now, requests, rate_limits, history, updates, pipeRest>>

\* the handler after search_courses: the progress object is stopped (typed
\* query), the search is stored in the history, the answer is sent; an
\* exception out of search_courses is answered with "search_failed"
HandlerFinish ==
  /\ task.pc = "returned"
  /\ IF task.outcome = "raised"
       THEN /\ task' = [task EXCEPT !.pc = "done", !.is_active = FALSE,
                                    !.reply = "search_failed"]
            /\ UNCHANGED history
       ELSE /\ task' = [task EXCEPT !.pc = "done", !.is_active = FALSE,
                                    !.reply = IF task.results # <<>> THEN "results"
                                              ELSE "no_results"]
            /\ \E tie \in TieOrders :
                 history' = [history EXCEPT ![task.user] =
                               add_search_history(@, task.query, Len(task.results),
                                                  now, tie)]
  /\ UNCHANGED <<now, requests, rate_limits, updates, pipeRest>>

\* the update has been handled
HandlerDone ==
  /\ task.pc = "done"
  /\ task' = IdleTask
  /\ updates' = updates + 1
  /\ UNCHANGED <<now, requests, rate_limits, history, pipeRest>>

Next ==
  \/ Tick
  \/ Restart
  \/ \E user_id \in Chatters, text \in Queries, fault \in FaultPoints :
       SearchMessage(user_id, text, fault)
  \/ \E user_id \in Chatters, search_index \in 0..9 : HistoryRerun(user_id, search_index)
  \/ EmitBegin
  \/ \E delivered \in BOOLEAN :
       \/ ScPrepare(delivered)
       \/ ScSearching(delivered)
       \/ ScQuerying(delivered)
       \/ ScParsing(delivered)
       \/ ScProcessing(delivered)
       \/ ScCompleted(delivered)
       \/ ScFailed(delivered)
  \/ \E outcome \in ProviderOutcomes, body \in Responses : ScFetch(outcome, body)
  \/ HandlerFinish
  \/ HandlerDone

Spec == Init /\ [][Next]_vars

\* the remote call of the running handler failed
RemoteCallFailed == task.netCall /\ task.provider \in {"transport", "malformed"}

\* C1: no remote call is made for a query that is empty after normalization.
C1_NoFetchForEmptyQuery == task.netCall => NormalizeQuery(task.query) # <<>>

\* C2: a remote call is made only in a request that both rate-limit layers
\* accepted.
C2_FetchOnlyWhenAdmitted ==
  task.netCall => (task.admitted.memory /\ task.admitted.durable)

\* the link without its scheme
AfterScheme(url) ==
  LET marks == {i \in 1..(Len(url) - 2) : SubSeq(url, i, i + 2) = <<":", "/", "/">>}
  IN  IF marks = {} THEN url
      ELSE SubSeq(url, (CHOOSE i \in marks : \A j \in marks : i <= j) + 3, Len(url))

\* the host of a link: what stands between the scheme and the path, query
\* or fragment
HostOf(url) ==
  LET rest == AfterScheme(url)
      stops == {i \in 1..Len(rest) : rest[i] \in {"/", "?", "#"}}
  IN  IF stops = {} THEN rest
      ELSE SubSeq(rest, 1, (CHOOSE i \in stops : \A j \in stops : i <= j) - 1)

\* C14: every result search_courses returns has a non-empty link whose host
\* matches one of the supported platforms, whatever the case of its letters.
C14_ReturnedLinksOnPlatforms ==
  task.pc = "returned" =>
    \A k \in 1..Len(task.results) :
      /\ task.results[k].link # <<>>
      /\ \E p \in 1..Len(SUPPORTED_PLATFORMS) :
           Contains(Lower(HostOf(task.results[k].link)), SUPPORTED_PLATFORMS[p])

\* the progress texts of a successful run before the terminal one, in the
\* order of the statements that emit them
FixedOrder == <<"preparing", "searching", "querying provider", "parsing", "processing">>

\* the emissions before a terminal one at the end, if there is one
BeforeTerminal(emissions) ==
  IF emissions # <<>> /\ emissions[Len(emissions)] \in {"completed", "failed"}
    THEN SubSeq(emissions, 1, Len(emissions) - 1)
    ELSE emissions

\* C15: what a run of search_courses emits is at every moment a prefix of
\* preparing, searching, querying provider, parsing, processing, followed by
\* at most one terminal signal; when the run has returned, the last emission
\* is the one terminal signal: "completed" after the whole fixed order if the
\* run succeeded, "failed" if it did not; after a failed remote call neither
\* "parsing" nor "processing" was emitted.
C15_SignalsInOrder ==
  task.callback =>
    LET body == BeforeTerminal(task.emissions) IN
    /\ Len(body) <= Len(FixedOrder)
    /\ body = SubSeq(FixedOrder, 1, Len(body))
    /\ task.pc \notin {"returned", "done"} => body = task.emissions
    /\ task.pc \in {"returned", "done"} =>
         /\ Len(task.emissions) = Len(body) + 1
         /\ task.emissions[Len(task.emissions)] =
              (IF task.provider = "ok" THEN "completed" ELSE "failed")
         /\ task.provider = "ok" => body = FixedOrder
    /\ RemoteCallFailed =>
         \A k \in 1..Len(task.emissions) :
           task.emissions[k] \notin {"parsing", "processing"}

\* a run has failed in the remote call, after three signals, and has emitted
\* "failed" as its last one
C15_Witness ==
  /\ task.pc = "returned"
  /\ task.callback
  /\ RemoteCallFailed
  /\ task.emissions = <<"preparing", "searching", "querying provider", "failed">>

\* what search_courses returns for a provider outcome, a body and a cap when
\* every emission is delivered: the pair of results and count
UndisturbedReturn(provider, response, max_results) ==
  IF provider = "ok"
    THEN LET survivors == filter_and_enhance_results(
                            ProcessOrganic(response.organic)
                            \o process_additional_results(response.paa))
         IN  <<Truncate(survivors, max_results), Len(survivors)>>
    ELSE <<<<>>, 0>>

\* C16: a progress emission that cannot be delivered is swallowed by
\* SearchProgress.update: search_courses returns, and the results and count
\* it returns are those of the run in which every emission is delivered,
\* whichever emissions failed.
C16_LostEmissionsChangeNothing ==
  (task.pc = "returned" /\ task.callback) =>
    /\ task.outcome = "pair"
    /\ <<task.results, task.total_found>> =
         UndisturbedReturn(task.provider, task.response, task.max_results)

\* a run in which no emission but the last was delivered has returned results
C16_Witness ==
  /\ task.pc = "returned"
  /\ task.callback
  /\ task.results # <<>>
  /\ Len(task.emissions) = Len(FixedOrder) + 1
  /\ task.current_frame = 1
  /\ task.last_delivered

\* search_courses is held by an emission: it stands at an emitting statement,
\* suspended in the await of update, and its next statement runs only when
\* update has returned
HeldByEmission == task.awaiting

\* C17: the pipeline never waits on a progress emission: search_courses is
\* never held at an emitting statement until the emission (delivery and
\* pacing delay) has ended.
C17_NeverWaitsOnEmission == ~HeldByEmission

\* the hits of a body that are looked at: the organic results and the first
\* three related questions
HitsOf(response) == response.organic \o SubSeq(response.paa, 1, Min(3, Len(response.paa)))

\* C21: an exception in the processing of one hit drops that hit only: once
\* a body has been parsed, every hit of it that is processed without error
\* on its own is among the processed results, and the request has not failed.
C21_OnlyTheBadHitDropped ==
  (task.provider = "ok" /\ task.netCall) =>
    /\ task.pc # "failed"
    /\ task.pc \in {"processing", "completed", "returned", "done"} =>
         \A k \in 1..Len(HitsOf(task.response)) :
           \A r \in Range(process_search_result(HitsOf(task.response)[k])) :
             r \in Range(task.all_results)

\* the provider answered successfully with no organic and no related hits
EmptyAnswer ==
  /\ task.netCall
  /\ task.provider = "ok"
  /\ task.response = [organic |-> <<>>, paa |-> <<>>]

\* C22: when the provider answers successfully with no organic and no
\* related-question hits, search_courses returns ([], 0) as a pair, no error
\* is raised, "failed" is never emitted and the last emission of a run with
\* a callback is "completed".
C22_EmptyAnswerCompletes ==
  EmptyAnswer =>
    /\ task.pc # "failed"
    /\ \A k \in 1..Len(task.emissions) : task.emissions[k] # "failed"
    /\ task.pc \in {"returned", "done"} =>
         /\ task.outcome = "pair"
         /\ task.results = <<>>
         /\ task.total_found = 0
         /\ task.callback =>
              /\ task.emissions # <<>>
              /\ task.emissions[Len(task.emissions)] = "completed"

\* a typed search whose provider answered with no hits has returned
C22_Witness ==
  /\ EmptyAnswer
  /\ task.pc = "returned"
  /\ task.callback
  /\ task.outcome = "pair"
  /\ task.results = <<>>
  /\ task.total_found = 0
  /\ task.emissions[Len(task.emissions)] = "completed"

\* C6: a typed search whose remote call failed is answered with "search
\* failed", not with the "no results" of a search that found nothing.
C6_FailureReported ==
  (task.pc = "done" /\ task.kind = "typed" /\ RemoteCallFailed) =>
    task.reply = "search_failed"

\* C7: after the remote call of an admitted request failed, each layer still
\* holds the one unit the admission took: the user's timestamp list is one
\* longer than what the admission found, and the stored count is one higher
\* (when the durable layer counted the request, i.e. met no storage fault).
C7_BudgetKeptOnFailure ==
  (task.kind = "typed" /\ RemoteCallFailed) =>
    /\ task.admitted.memory /\ task.admitted.durable
    /\ Len(RequestsOf(requests, task.user)) = task.budget.memory + 1
    /\ ~task.dbFault =>
         /\ task.user \in DOMAIN rate_limits
         /\ rate_limits[task.user].search_count = task.budget.durable + 1

\* a typed search of a user with earlier searches in the window has failed in
\* the remote call and has been answered
C7_Witness ==
  /\ task.pc = "done"
  /\ task.kind = "typed"
  /\ RemoteCallFailed
  /\ ~task.dbFault
  /\ task.budget.memory > 0
  /\ task.budget.durable > 0

\* the count the durable layer stores for the user
StoredCount(table, user_id) ==
  IF user_id \in DOMAIN table THEN table[user_id].search_count ELSE 0

\* C28: a request that search_handler answers with 'rate limit' consumes no
\* budget in either layer: over the step that rejects it, neither the user's
\* in-process timestamp list nor the user's stored count has grown.
C28_RejectionTakesNoBudget ==
  [][(task.pc = "idle" /\ task'.reply = "rate_limit") =>
       /\ Len(RequestsOf(requests', task'.user)) <= Len(RequestsOf(requests, task'.user))
       /\ StoredCount(rate_limits', task'.user) <= StoredCount(rate_limits, task'.user)]_vars

\* C8: search_courses never leaves by an exception: whatever the query, the
\* provider's answer and the fate of each progress delivery, it returns a
\* pair of results and count.
C8_AlwaysReturnsPair ==
  /\ task.outcome # "raised"
  /\ task.pc = "returned" =>
       /\ task.outcome = "pair"
       /\ task.total_found >= Len(task.results)
       /\ RemoteCallFailed => (task.results = <<>> /\ task.total_found = 0)

\* search_courses has returned after a failed remote call whose "Search
\* failed" emission could not be delivered
C8_Witness ==
  /\ task.pc = "returned"
  /\ RemoteCallFailed
  /\ task.emissions # <<>>
  /\ task.emissions[Len(task.emissions)] = "failed"
  /\ ~task.last_delivered
  /\ task.current_frame < Len(task.emissions) - 1

\* ------------------------------------------------- the history on its own

\* calls of add_search_history that are followed
MaxHistoryAdds == 4

\* seconds that pass meanwhile
MaxHistoryTicks == 2

\* the 19 searches a user has stored so far: the first two in the same
\* second, the others a second apart; results_count numbers the searches
PreloadedRows ==
  [i \in 1..19 |-> [query |-> WarmQuery, results_count |-> i,
                    timestamp |-> Max(1, i - 1)]]

\* the one search of the other user
OtherRow == [query |-> WarmQuery, results_count |-> 20, timestamp |-> 18]

HistoryInit ==
  /\ now = PreloadedRows[Len(PreloadedRows)].timestamp
  /\ requests = <<>> /\ rate_limits = <<>> /\ gateLog = <<>>
  /\ task = IdleTask
  /\ history = [u \in Users |-> IF u = "u1" THEN PreloadedRows ELSE <<OtherRow>>]
  /\ updates = 0
  /\ progress = FreshProgress
  /\ build = IdleBuild
  /\ AccountIdle
  /\ ScoreIdle /\ FilterIdle /\ DbIdle

historyRest ==
  <<requests, rate_limits, gateLog, scoreVars, filterVars, dbVars, task, progress, build,
    accountVars>>

\* a second passes
HistoryTick ==
  /\ now < PreloadedRows[Len(PreloadedRows)].timestamp + MaxHistoryTicks
  /\ now' = now + 1
  /\ UNCHANGED <<history, updates, historyRest>>

\* the number of the next search
NextSearch == OtherRow.results_count + updates + 1

\* one call of add_search_history
HistoryAdd(user_id, tie) ==
  /\ updates < MaxHistoryAdds
  /\ history' = [history EXCEPT ![user_id] =
                   add_search_history(@, WarmQuery, NextSearch, now, tie)]
  /\ updates' = updates + 1
  /\ UNCHANGED <<now, historyRest>>

HistoryNext ==
  \/ HistoryTick
  \/ \E user_id \in Users, tie \in TieOrders : HistoryAdd(user_id, tie)

SpecHistory == HistoryInit /\ [][HistoryNext]_vars

\* C26: over every call of add_search_history, each user has at most 20
\* rows afterwards; the search just stored is retained and every row the
\* call deleted is older than every row of its user that is retained (the
\* retained rows are the most recent searches); and rows are deleted only
\* for the user the call was made for.
C26_TrimKeepsNewest ==
  [][updates' = updates + 1 =>
       \A u \in Users :
         /\ Len(history'[u]) <= 20
         /\ \A gone \in Range(history[u]) \ Range(history'[u]) :
              /\ \E new \in Range(history'[u]) : new.results_count = NextSearch
              /\ \A kept \in Range(history'[u]) : gone.results_count < kept.results_count
         /\ history'[u] # history[u] =>
              \E new \in Range(history'[u]) : new.results_count = NextSearch]_vars

\* ------------------------------------------- accounts, settings, options

accountRest ==
  <<scoreVars, filterVars, gateVars, dbVars, task, history, updates, progress, build>>

\* start_handler: the user is stored and greeted
StartCommand(user_id, first_name) ==
  /\ task.pc = "idle"
  /\ users' = add_or_update_user(users, user_id, first_name)
  /\ handled' = [kind |-> "start", user |-> user_id, settings |-> <<>>]
  /\ UNCHANGED <<user_search_states, accountRest>>

\* handle_setting_callbacks: the stored settings are read, one of them is
\* changed and the dict is given to update_user_settings
SettingCallback(user_id, setting) ==
  /\ task.pc = "idle"
  /\ LET current_settings == get_user_settings(users, user_id)
         changed ==
           IF setting = "results_per_page"
             THEN DictPut(current_settings, "results_per_page",
                          NextResultsPerPage(DictGet(current_settings, "results_per_page", 5)))
             ELSE DictPut(current_settings, "notifications",
                          ~DictGet(current_settings, "notifications", TRUE))
     IN  /\ users' = update_user_settings(users, user_id, changed)
         /\ handled' = [kind |-> "setting", user |-> user_id, settings |-> changed]
  /\ UNCHANGED <<user_search_states, accountRest>>

SettingsInit == GateFresh /\ ScoreIdle /\ FilterIdle /\ DbIdle /\ HandlerIdle

SettingsNext ==
  \/ \E user_id \in Users, first_name \in FirstNames : StartCommand(user_id, first_name)
  \/ \E user_id \in Users, setting \in Range(SettingKeys) : SettingCallback(user_id, setting)

SpecSettings == SettingsInit /\ [][SettingsNext]_vars

\* C25: every sequence of results_per_page callbacks keeps the stored
\* results_per_page of every user within 3..10.
C25_ResultsPerPageInRange ==
  \A u \in Users :
    LET settings == get_user_settings(users, u) IN
    "results_per_page" \in DOMAIN settings =>
      (3 <= settings["results_per_page"] /\ settings["results_per_page"] <= 10)

\* C29: /start changes the profile of the user only: over a step of
\* start_handler, get_user_settings returns for every user what it returned
\* before.
C29_StartKeepsSettings ==
  [][handled'.kind = "start" =>
       \A u \in Users : get_user_settings(users', u) = get_user_settings(users, u)]_vars

\* C30: after a settings callback has given a dict to update_user_settings,
\* get_user_settings returns that dict for the user, whether or not the user
\* ever sent /start.
C30_SettingsRoundTrip ==
  handled.kind = "setting" => get_user_settings(users, handled.user) = handled.settings

\* handle_search_callbacks: the preference is stored and the instruction shown
SearchOption(user_id, search_type) ==
  /\ task.pc = "idle"
  /\ user_search_states' =
       [u \in DOMAIN user_search_states \cup {user_id} |->
          IF u = user_id THEN [type |-> search_type, waiting_for_query |-> TRUE]
          ELSE user_search_states[u]]
  /\ UNCHANGED <<users, handled, accountRest>>

OptionInit == GateFresh /\ ScoreIdle /\ FilterIdle /\ DbIdle /\ HandlerIdle

\* a search option is pressed, or a query is typed and searched with every
\* emission delivered and an answer of the provider
OptionNext ==
  \/ \E user_id \in Users, search_type \in SearchTypes : SearchOption(user_id, search_type)
  \/ \E user_id \in Users : SearchMessage(user_id, WarmQuery, "none")
  \/ EmitBegin
  \/ ScPrepare(TRUE)
  \/ ScSearching(TRUE)
  \/ ScQuerying(TRUE)
  \/ \E body \in Responses : ScFetch("ok", body)
  \/ ScParsing(TRUE)
  \/ ScProcessing(TRUE)
  \/ ScCompleted(TRUE)
  \/ HandlerFinish
  \/ HandlerDone

SpecOption == OptionInit /\ [][OptionNext]_vars

\* the platform a search option names
PlatformOfType(search_type) ==
  CASE search_type = "drive" -> SUPPORTED_PLATFORMS[1]
    [] search_type = "mediafire" -> SUPPORTED_PLATFORMS[2]
    [] search_type = "mega" -> SUPPORTED_PLATFORMS[3]
    [] OTHER -> <<>>

\* C24: the query a user types after pressing a search option is searched
\* as the option says: on the one platform after drive, mediafire or mega
\* (the query sent to the provider ends with the single site term of that
\* platform), across all supported platforms after quick or all.
C24_OptionDirectsSearch ==
  (task.kind = "typed" /\ task.netCall /\ task.user \in DOMAIN user_search_states) =>
    LET search_type == user_search_states[task.user].type
        site == <<"s", "i", "t", "e", ":">>
    IN  /\ search_type \in {"drive", "mediafire", "mega"} =>
             /\ EndsWith(task.search_query, <<" ">> \o site \o PlatformOfType(search_type))
             /\ Occurrences(task.search_query, site) = 1
        /\ search_type \in {"quick", "all"} =>
             EndsWith(task.search_query, AllSitesGroup)

====
